---- MODULE Spec2Model ----
(***************************************************************************)
(* Model of the virtual-event-management backend: the in-memory store      *)
(* (db.users, db.events, db.userEvents) and the request handlers of        *)
(* routes/event.routes.js that mutate it.                                  *)
(*                                                                         *)
(* Execution model.  Node runs one handler at a time.  A handler runs      *)
(* without interruption until it awaits a promise that is settled by real  *)
(* I/O (transporter.sendMail inside sendEmail); awaits of promises that    *)
(* are already settled only yield to the microtask queue, which is drained *)
(* before any other request is dispatched.  So every handler is one atomic *)
(* step up to its first await of an email delivery, and one more atomic    *)
(* step (its "Resume") after the deliveries have settled.  Handlers that   *)
(* are suspended on deliveries are kept in the bag inflight.               *)
(*                                                                         *)
(* JavaScript objects are references: the Set of participants of an event  *)
(* is shared between the stored event, the copies { ...event } made by     *)
(* update and the event variable captured by suspended handlers.  The      *)
(* variable sets is the heap of those Set objects; an event record holds   *)
(* the reference in its field participants.                                *)
(***************************************************************************)
EXTENDS Integers, FiniteSets, Sequences, Bags, TLC

\* ---------------------------------------------------------------- bounds
NumAccounts == 2      \* user records in the store when the model starts
MaxCap == 2           \* largest capacity in a request body
MaxInflight == 1      \* handlers suspended on email delivery at a time

\* ------------------------------------------------------------ value sets
Undef == "undefined"  \* a field absent from a JSON body
NoId == -1            \* req.user without an id

Emails == 1..NumAccounts
\* ids carried by valid tokens: the ids of the stored users, and 0, a token
\* issued before the process was last restarted (the store is in memory,
\* the JWT secret is not), whose user has no record.  The numbers stand for
\* the strings Date.now().toString() gave out, so every one of them, 0
\* included, is a truthy id; only NoId fails the test !userId.
Requesters == 0..NumAccounts
Clients == Requesters \cup {NoId}
FirstClock == NumAccounts
\* the model follows the event id handed out at the first clock reading:
\* one event in Spec, where the clock advances with every create, and the
\* colliding creates of one millisecond in SpecSameMs.
EventIds == {FirstClock}
\* Set objects alive at once: the stored event's, those captured by
\* suspended handlers, and the one being allocated.
Refs == 1..(MaxInflight + 2)

Fields == {"title", "description", "date", "time", "capacity"}

VARIABLES
    now,         \* Date.now()
    users,       \* db.users: email -> user
    events,      \* db.events: event id -> event
    userEvents,  \* db.userEvents: user id -> set of event ids
    sets,        \* heap of the participants Set objects: reference -> members
    inflight,    \* bag of handlers suspended on email deliveries
    responses,   \* bag of the responses written by res.json and not yet read
    inMemoryLogs \* the logger's inMemoryLogs: user id -> array of log entries

\* inMemoryLogs is written by logEvent and read by no handler of this model.
\* SpecLog follows it, under any sequence of logEvent calls; the other
\* specifications start with it empty and do not follow the calls of
\* logEvent that their handlers make.
vars == <<now, users, events, userEvents, sets, inflight, responses, inMemoryLogs>>

\* ------------------------------------------------------------- helpers
\* JavaScript truthiness of a string field of a body, and of a number field
\* (an absent number is <<>>, a present one <<n>>)
TruthyAlways(v) == TRUE
Truthy(v) == v /= Undef /\ v /= ""
TruthyNum(c) == c /= <<>> /\ c[1] /= 0

\* Array.from(db.users.values()).find(user => user.id === id)
HasRecord(id) == \E m \in DOMAIN users : users[m].id = id
EmailOf(id) == CHOOSE m \in DOMAIN users : users[m].id = id

\* Map.prototype.set / Map.prototype.delete
MapSet(map, k, v) == (k :> v) @@ map
MapDelete(map, k) == [x \in DOMAIN map \ {k} |-> map[x]]

\* the Set objects still referenced by a stored event or a suspended handler
LiveRefs(ev, infl) ==
    {ev[e].participants : e \in DOMAIN ev}
        \cup {c.event.participants : c \in {d \in BagToSet(infl) : d.kind /= "delete"}}
Collect(heap, ev, infl) == [r \in DOMAIN heap \cap LiveRefs(ev, infl) |-> heap[r]]
\* new Set(): a fresh object
NewRef == CHOOSE r \in Refs : r \notin DOMAIN sets /\ \A q \in 1..(r - 1) : q \in DOMAIN sets

\* res.status(status).json({ error, ... }): n is the number the body carries
\* (spotsRemaining, currentParticipants, participantsNotified, capacity),
\* fields its updatedFields
Resp(client, op, eventId, status, error, n, fields) ==
    [to |-> client, op |-> op, eventId |-> eventId, status |-> status, error |-> error,
     n |-> n, fields |-> fields]
Respond(r) == responses' = responses (+) SetToBag({r})

\* a handler suspended at an await of email deliveries, with the variables
\* it uses when it resumes
Suspended(kind, userId, eventId, event, changedFields, recipients, n) ==
    [kind |-> kind, user |-> userId, eventId |-> eventId, event |-> event,
     changedFields |-> changedFields, recipients |-> recipients, n |-> n]
\* the fields of the captured event that a suspended register reads
Captured(event) ==
    [title |-> event.title, date |-> event.date, time |-> event.time,
     capacity |-> event.capacity, participants |-> event.participants]
Suspend(c) == inflight' = inflight (+) SetToBag({c})

\* ----------------------------------------------------------------- Init
\* The store after the accounts 1..NumAccounts have signed up, at the clock
\* readings 1..NumAccounts (POST /auth/register sets users and userEvents).
\* The role is the one the sign-up body gave (default 'attendee'): the first
\* account signed up as organizer, the others as attendees.
RoleOf(m) == IF m = 1 THEN "organizer" ELSE "attendee"
SignedUp == [m \in Emails |-> [id |-> m, email |-> m, role |-> RoleOf(m)]]

Init ==
    /\ inMemoryLogs = <<>>
    /\ now = FirstClock
    /\ users = SignedUp
    /\ events = <<>>
    /\ userEvents = [u \in Emails |-> {}]
    /\ sets = <<>>
    /\ inflight = EmptyBag
    /\ responses = EmptyBag

\* a client reads the responses sent so far
Receive ==
    /\ UNCHANGED inMemoryLogs
    /\ responses /= EmptyBag
    /\ responses' = EmptyBag
    /\ UNCHANGED <<now, users, events, userEvents, sets, inflight>>

\* ---------------------------------------------------------- POST /events
\* (the handler does not touch the clock; what the clock does while it runs
\* is said by the specification)
CreateEvent(userId, body) ==
    /\ UNCHANGED inMemoryLogs
    /\ now \in EventIds
    /\ UNCHANGED <<users, userEvents, inflight>>
    /\ IF userId = NoId
       THEN /\ Respond(Resp(userId, "create", 0, 401, "User not authenticated properly", <<>>, {}))
            /\ UNCHANGED <<events, sets>>
       ELSE IF ~Truthy(body.title) \/ ~Truthy(body.date) \/ ~Truthy(body.time)
                  \/ ~TruthyNum(body.capacity)
       THEN /\ Respond(Resp(userId, "create", 0, 400, "Missing required fields", <<>>, {}))
            /\ UNCHANGED <<events, sets>>
       ELSE LET eventId == now
                event == [id |-> eventId,
                          title |-> body.title,
                          description |-> IF Truthy(body.description) THEN body.description ELSE "",
                          date |-> body.date,
                          time |-> body.time,
                          capacity |-> body.capacity[1],
                          createdBy |-> userId,
                          participants |-> NewRef,
                          createdAt |-> now,
                          updatedAt |-> <<>>]
            IN /\ events' = MapSet(events, eventId, event)
               /\ sets' = Collect(MapSet(sets, NewRef, {}), events', inflight)
               /\ Respond(Resp(userId, "create", eventId, 201, "", <<event.capacity>>, {}))

\* ------------------------------------------------------- PUT /events/:id
\* if (capacity && capacity < event.participants.size)
CapacityTooLowOffByOne(capacity, size) == TruthyNum(capacity) /\ capacity[1] < size - 1
CapacityTooLow(capacity, size) == TruthyNum(capacity) /\ capacity[1] < size

UpdateEvent(userId, eventId, body) ==
    /\ UNCHANGED inMemoryLogs
    /\ UNCHANGED <<now, users, userEvents>>
    /\ IF eventId \notin DOMAIN events
       THEN /\ Respond(Resp(userId, "update", eventId, 404, "Event not found", <<>>, {}))
            /\ UNCHANGED <<events, sets, inflight>>
       ELSE LET event == events[eventId]
                size == Cardinality(sets[event.participants])
            IN IF event.createdBy /= userId
               THEN /\ Respond(Resp(userId, "update", eventId, 403,
                          "Unauthorized: Only the event creator can update this event", <<>>, {}))
                    /\ UNCHANGED <<events, sets, inflight>>
               ELSE IF CapacityTooLow(body.capacity, size)
               THEN /\ Respond(Resp(userId, "update", eventId, 400,
                          "New capacity cannot be less than current number of participants",
                          <<size>>, {}))
                    /\ UNCHANGED <<events, sets, inflight>>
               ELSE LET updatedEvent ==
                          [event EXCEPT
                             !.title = IF Truthy(body.title) THEN body.title ELSE @,
                             !.description = IF Truthy(body.description) THEN body.description ELSE @,
                             !.date = IF Truthy(body.date) THEN body.date ELSE @,
                             !.time = IF Truthy(body.time) THEN body.time ELSE @,
                             !.capacity = IF TruthyNum(body.capacity) THEN body.capacity[1] ELSE @,
                             !.updatedAt = <<now>>]
                        changedFields ==
                          {f \in Fields \ {"capacity"} : body[f] /= event[f] /\ body[f] /= Undef}
                            \cup {f \in {"capacity"} : body.capacity /= <<event.capacity>>
                                                        /\ body.capacity /= <<>>}
                        recipients ==
                          IF body.date /= event.date \/ body.time /= event.time
                          THEN {EmailOf(p) : p \in {q \in sets[event.participants] : HasRecord(q)}}
                          ELSE {}
                    IN IF recipients /= {}
                       THEN /\ Suspend(Suspended("update", userId, eventId, updatedEvent,
                                                 changedFields, recipients, 0))
                            /\ UNCHANGED <<events, sets, responses>>
                       ELSE /\ events' = MapSet(events, eventId, updatedEvent)
                            /\ Respond(Resp(userId, "update", eventId, 200, "", <<size>>, changedFields))
                            /\ UNCHANGED <<sets, inflight>>

\* logEvent('warn', 'Failed to send update notification email', ...): the
\* warning logged for a delivery that failed, an output next to the response
EmailFailed(userId, eventId, participantId) ==
    Resp(userId, "log", eventId, 0, "UPDATE_EVENT_EMAIL_FAILED", <<participantId>>, {})

\* the awaited deliveries of an update have settled; those to failed threw,
\* and each throw was caught inside the callback of its participant
UpdateResumeFailFast(c, failed) ==
    /\ UNCHANGED inMemoryLogs
    /\ c \in BagToSet(inflight)
    /\ c.kind = "update"
    /\ failed \subseteq c.recipients
    /\ inflight' = inflight (-) SetToBag({c})
    /\ IF failed = {}
       THEN /\ events' = MapSet(events, c.eventId, c.event)
            /\ Respond(Resp(c.user, "update", c.eventId, 200, "",
                            <<Cardinality(sets[c.event.participants])>>, c.changedFields))
       ELSE /\ events' = events
            /\ Respond(Resp(c.user, "update", c.eventId, 500, "Error updating event", <<>>, {}))
    /\ sets' = Collect(sets, events', inflight')
    /\ UNCHANGED <<now, users, userEvents>>
UpdateResume(c, failed) ==
    /\ UNCHANGED inMemoryLogs
    /\ c \in BagToSet(inflight)
    /\ c.kind = "update"
    /\ failed \subseteq c.recipients
    /\ inflight' = inflight (-) SetToBag({c})
    /\ events' = MapSet(events, c.eventId, c.event)
    /\ responses' = responses
          (+) SetToBag({Resp(c.user, "update", c.eventId, 200, "",
                             <<Cardinality(sets[c.event.participants])>>, c.changedFields)})
          (+) SetToBag({EmailFailed(c.user, c.eventId, users[m].id) : m \in failed})
    /\ sets' = Collect(sets, events', inflight')
    /\ UNCHANGED <<now, users, userEvents>>

\* ---------------------------------------------------- DELETE /events/:id
DeleteEventClearAll(userId, eventId) ==
    /\ UNCHANGED inMemoryLogs
    /\ UNCHANGED <<now, users>>
    /\ IF eventId \notin DOMAIN events
       THEN /\ Respond(Resp(userId, "delete", eventId, 404, "Event not found", <<>>, {}))
            /\ UNCHANGED <<events, userEvents, sets, inflight>>
       ELSE LET event == events[eventId]
                participants == sets[event.participants]
            IN IF event.createdBy /= userId
               THEN /\ Respond(Resp(userId, "delete", eventId, 403,
                          "Unauthorized: Only the event creator can delete this event", <<>>, {}))
                    /\ UNCHANGED <<events, userEvents, sets, inflight>>
               ELSE /\ userEvents' = [u \in DOMAIN userEvents |->
                                        IF u \in participants THEN {} ELSE userEvents[u]]
                    /\ IF participants = {}
                       THEN /\ events' = MapDelete(events, eventId)
                            /\ Respond(Resp(userId, "delete", eventId, 200, "", <<0>>, {}))
                            /\ UNCHANGED inflight
                            /\ sets' = Collect(sets, events', inflight')
                       ELSE IF \E p \in participants : ~HasRecord(p)
                       THEN /\ Respond(Resp(userId, "delete", eventId, 500, "Error deleting event", <<>>, {}))
                            /\ UNCHANGED <<events, sets, inflight>>
                       ELSE /\ Suspend(Suspended("delete", userId, eventId, [title |-> event.title], {},
                                   {EmailOf(p) : p \in participants}, Cardinality(participants)))
                            /\ UNCHANGED <<events, sets, responses>>
DeleteEvent(userId, eventId) ==
    /\ UNCHANGED inMemoryLogs
    /\ UNCHANGED <<now, users>>
    /\ IF eventId \notin DOMAIN events
       THEN /\ Respond(Resp(userId, "delete", eventId, 404, "Event not found", <<>>, {}))
            /\ UNCHANGED <<events, userEvents, sets, inflight>>
       ELSE LET event == events[eventId]
                participants == sets[event.participants]
            IN IF event.createdBy /= userId
               THEN /\ Respond(Resp(userId, "delete", eventId, 403,
                          "Unauthorized: Only the event creator can delete this event", <<>>, {}))
                    /\ UNCHANGED <<events, userEvents, sets, inflight>>
               ELSE /\ userEvents' = [u \in DOMAIN userEvents |->
                                        IF u \in participants THEN userEvents[u] \ {eventId}
                                        ELSE userEvents[u]]
                    /\ IF participants = {}
                       THEN \* nothing to send: the awaits are settled already
                            /\ events' = MapDelete(events, eventId)
                            /\ Respond(Resp(userId, "delete", eventId, 200, "", <<0>>, {}))
                            /\ UNCHANGED inflight
                            /\ sets' = Collect(sets, events', inflight')
                       ELSE IF \E p \in participants : ~HasRecord(p)
                       THEN \* notifications holds undefined: sendBulkEmails throws
                            /\ Respond(Resp(userId, "delete", eventId, 500, "Error deleting event", <<>>, {}))
                            /\ UNCHANGED <<events, sets, inflight>>
                       ELSE /\ Suspend(Suspended("delete", userId, eventId, [title |-> event.title], {},
                                   {EmailOf(p) : p \in participants}, Cardinality(participants)))
                            /\ UNCHANGED <<events, sets, responses>>

\* sendBulkEmails has settled (Promise.allSettled: it never rejects here)
DeleteResume(c) ==
    /\ UNCHANGED inMemoryLogs
    /\ c \in BagToSet(inflight)
    /\ c.kind = "delete"
    /\ inflight' = inflight (-) SetToBag({c})
    /\ events' = MapDelete(events, c.eventId)
    /\ Respond(Resp(c.user, "delete", c.eventId, 200, "", <<c.n>>, {}))
    /\ sets' = Collect(sets, events', inflight')
    /\ UNCHANGED <<now, users, userEvents>>

\* -------------------------------------------------- POST /events/:id/register
\* if (!db.userEvents.has(userId)) db.userEvents.set(userId, new Set());
\* db.userEvents.get(userId).add(eventId)
AddUserEventNoInit(ue, userId, eventId) ==
    IF userId \in DOMAIN ue THEN [ue EXCEPT ![userId] = @ \cup {eventId}] ELSE ue
AddUserEvent(ue, userId, eventId) ==
    LET ensured == IF userId \in DOMAIN ue THEN ue ELSE MapSet(ue, userId, {})
    IN [ensured EXCEPT ![userId] = @ \cup {eventId}]

RegisterForEventAddFirst(userId, eventId) ==
    /\ UNCHANGED inMemoryLogs
    /\ UNCHANGED <<now, users, events, inflight>>
    /\ IF eventId \notin DOMAIN events
       THEN /\ Respond(Resp(userId, "register", eventId, 404, "Event not found", <<>>, {}))
            /\ UNCHANGED <<userEvents, sets>>
       ELSE LET event == events[eventId]
            IN /\ sets' = [sets EXCEPT ![event.participants] = @ \cup {userId}]
               /\ userEvents' = AddUserEvent(userEvents, userId, eventId)
               /\ IF Cardinality(sets'[event.participants]) > event.capacity
                  THEN Respond(Resp(userId, "register", eventId, 400, "Event is full", <<>>, {}))
                  ELSE Respond(Resp(userId, "register", eventId, 200, "",
                           <<event.capacity - Cardinality(sets'[event.participants])>>, {}))
RegisterForEvent(userId, eventId) ==
    /\ UNCHANGED inMemoryLogs
    /\ UNCHANGED <<now, users, events>>
    /\ IF eventId \notin DOMAIN events
       THEN /\ Respond(Resp(userId, "register", eventId, 404, "Event not found", <<>>, {}))
            /\ UNCHANGED <<userEvents, sets, inflight>>
       ELSE LET event == events[eventId]
                participants == sets[event.participants]
            IN IF Cardinality(participants) >= event.capacity
               THEN /\ Respond(Resp(userId, "register", eventId, 400, "Event is full", <<>>, {}))
                    /\ UNCHANGED <<userEvents, sets, inflight>>
               ELSE IF userId \in participants
               THEN /\ Respond(Resp(userId, "register", eventId, 400,
                                    "Already registered for this event", <<>>, {}))
                    /\ UNCHANGED <<userEvents, sets, inflight>>
               ELSE /\ sets' = [sets EXCEPT ![event.participants] = @ \cup {userId}]
                    /\ userEvents' = AddUserEvent(userEvents, userId, eventId)
                    /\ IF HasRecord(userId)
                       THEN /\ Suspend(Suspended("register", userId, eventId, Captured(event), {},
                                   {EmailOf(userId)},
                                   \* history, not kept by the handler: the spots that
                                   \* remain right after this registration
                                   event.capacity - Cardinality(sets'[event.participants])))
                            /\ UNCHANGED responses
                       ELSE /\ Respond(Resp(userId, "register", eventId, 200, "",
                                   <<event.capacity - Cardinality(sets'[event.participants])>>, {}))
                            /\ UNCHANGED inflight

\* the awaited sendEmail of a register settles: delivered, or sendEmail throws
RegisterResumeSilent(c, delivered) ==
    /\ UNCHANGED inMemoryLogs
    /\ c \in BagToSet(inflight)
    /\ c.kind = "register"
    /\ inflight' = inflight (-) SetToBag({c})
    /\ IF delivered
       THEN Respond(Resp(c.user, "register", c.eventId, 200, "",
                <<c.event.capacity - Cardinality(sets[c.event.participants])>>, {}))
       ELSE UNCHANGED responses
    /\ sets' = Collect(sets, events, inflight')
    /\ UNCHANGED <<now, users, events, userEvents>>
RegisterResume(c, delivered) ==
    /\ UNCHANGED inMemoryLogs
    /\ c \in BagToSet(inflight)
    /\ c.kind = "register"
    /\ inflight' = inflight (-) SetToBag({c})
    /\ IF delivered
       THEN Respond(Resp(c.user, "register", c.eventId, 200, "",
                <<c.event.capacity - Cardinality(sets[c.event.participants])>>, {}))
       ELSE Respond(Resp(c.user, "register", c.eventId, 500, "Error registering for event", <<>>, {}))
    /\ sets' = Collect(sets, events, inflight')
    /\ UNCHANGED <<now, users, events, userEvents>>

\* ---------------------------------------------------- POST /auth/register
\* the handler up to its first await, bcrypt.hash, which is settled by the
\* thread pool: other requests are served before it resumes
SignUp(email, role) ==
    /\ UNCHANGED inMemoryLogs
    /\ UNCHANGED <<now, users, events, userEvents, sets>>
    /\ IF email \in DOMAIN users
       THEN /\ Respond(Resp(email, "signup", 0, 400, "Email already registered", <<>>, {}))
            /\ UNCHANGED inflight
       ELSE /\ Suspend(Suspended("hash", email, 0, [role |-> role], {}, {}, 0))
            /\ UNCHANGED responses

\* the hash has settled: the user is stored under the id the clock gives now,
\* and the handler awaits the welcome email
SignUpStore(c) ==
    /\ UNCHANGED inMemoryLogs
    /\ c \in BagToSet(inflight)
    /\ c.kind = "hash"
    /\ users' = MapSet(users, c.user, [id |-> now, email |-> c.user, role |-> c.event.role])
    /\ userEvents' = MapSet(userEvents, now, {})
    /\ inflight' = (inflight (-) SetToBag({c}))
                     (+) SetToBag({Suspended("welcome", c.user, 0, c.event, {}, {c.user}, 0)})
    /\ UNCHANGED <<now, events, sets, responses>>

\* the welcome email has settled: delivered, or sendEmail throws
SignUpResume(c, delivered) ==
    /\ UNCHANGED inMemoryLogs
    /\ c \in BagToSet(inflight)
    /\ c.kind = "welcome"
    /\ inflight' = inflight (-) SetToBag({c})
    /\ IF delivered
       THEN Respond(Resp(c.user, "signup", 0, 201, "", <<>>, {}))
       ELSE Respond(Resp(c.user, "signup", 0, 500, "Error registering user", <<>>, {}))
    /\ UNCHANGED <<now, users, events, userEvents, sets>>

\* ----------------------------------------------------------- GET /events
\* String.prototype.toLowerCase and String.prototype.includes
LowerChar(ch) ==
    CASE ch = "A" -> "a" [] ch = "E" -> "e" [] ch = "L" -> "l" [] ch = "T" -> "t"
      [] OTHER -> ch
RECURSIVE ToLowerCase(_)
ToLowerCase(str) ==
    IF str = "" THEN ""
    ELSE LowerChar(SubSeq(str, 1, 1)) \o ToLowerCase(SubSeq(str, 2, Len(str)))
Includes(str, part) ==
    \E i \in 0..(Len(str) - Len(part)) : SubSeq(str, i + 1, i + Len(part)) = part

\* new Date(date) as a number, in days: <<d>>, or <<>> for NaN (Invalid
\* Date).  The ISO form yyyy-mm-dd parses; a day-first date does not.
DateNumber(date) ==
    CASE date = "2025-01-01" -> <<20089>>
      [] date = "2025-01-02" -> <<20090>>
      [] OTHER -> <<>>
\* (a, b) => new Date(a.date) - new Date(b.date); sort reads a NaN result
\* as +0
CompareByDate(a, b) ==
    IF DateNumber(a.date) = <<>> \/ DateNumber(b.date) = <<>> THEN 0
    ELSE DateNumber(a.date)[1] - DateNumber(b.date)[1]
\* Array.prototype.sort, stable: each element is inserted behind the last
\* element that does not compare greater
RECURSIVE InsertSorted(_, _)
InsertSorted(sorted, x) ==
    IF sorted = <<>> THEN <<x>>
    ELSE IF CompareByDate(x, sorted[Len(sorted)]) < 0
    THEN Append(InsertSorted(SubSeq(sorted, 1, Len(sorted) - 1), x), sorted[Len(sorted)])
    ELSE Append(sorted, x)
RECURSIVE SortByDate(_)
SortByDate(list) ==
    IF list = <<>> THEN <<>>
    ELSE InsertSorted(SortByDate(SubSeq(list, 1, Len(list) - 1)), list[Len(list)])

\* Array.from(db.events.values()): the events in insertion order, which is
\* the order of their ids while no event is stored again after a delete
RECURSIVE EventValues(_)
EventValues(ev) ==
    IF DOMAIN ev = {} THEN <<>>
    ELSE LET last == CHOOSE e \in DOMAIN ev : \A o \in DOMAIN ev : o <= e
         IN Append(EventValues(MapDelete(ev, last)), ev[last])

\* the view of one event for the caller
RegistrationStatusFullFirst(isUserRegistered, isFull) ==
    IF isFull THEN "full" ELSE IF isUserRegistered THEN "registered" ELSE "open"
RegistrationStatus(isUserRegistered, isFull) ==
    IF isUserRegistered THEN "registered" ELSE IF isFull THEN "full" ELSE "open"
EventView(event, userId) ==
    LET size == Cardinality(sets[event.participants])
        isUserRegistered == userId \in sets[event.participants]
    IN [id |-> event.id, title |-> event.title, description |-> event.description,
        date |-> event.date, time |-> event.time, capacity |-> event.capacity,
        participantCount |-> size,
        spotsRemaining |-> event.capacity - size,
        isUserRegistered |-> isUserRegistered,
        createdBy |-> IF HasRecord(event.createdBy) THEN <<event.createdBy>> ELSE <<>>,
        isFull |-> size >= event.capacity,
        registrationStatus |-> RegistrationStatus(isUserRegistered, size >= event.capacity)]

\* the events of the response: mapped, sorted, filtered
FilteredEvents(userId, date, query) ==
    LET values == EventValues(events)
        eventList == SortByDate([i \in 1..Len(values) |-> EventView(values[i], userId)])
        DateMatches(view) == view.date = date
        QueryMatches(view) ==
            \/ Includes(ToLowerCase(view.title), ToLowerCase(query))
            \/ Includes(ToLowerCase(view.description), ToLowerCase(query))
        byDate == IF Truthy(date) THEN SelectSeq(eventList, DateMatches) ELSE eventList
    IN IF Truthy(query) THEN SelectSeq(byDate, QueryMatches) ELSE byDate

\* the response carries the views in its field n
ListEvents(userId, date, query) ==
    /\ UNCHANGED inMemoryLogs
    /\ Respond(Resp(userId, "list", 0, 200, "", FilteredEvents(userId, date, query), {}))
    /\ UNCHANGED <<now, users, events, userEvents, sets, inflight>>

\* ------------------------------------------------------------- logEvent
MaxMemoryLogs == 1000   \* entries kept per user
\* Array.prototype.slice(-n) and slice(0, n)
SliceLast(arr, n) == IF Len(arr) <= n THEN arr ELSE SubSeq(arr, Len(arr) - n + 1, Len(arr))
SliceFirst(arr, n) == IF Len(arr) <= n THEN arr ELSE SubSeq(arr, 1, n)

\* logEvent(level, message, { userId, ... }); the timestamp is the clock
\* reading.  An entry without a truthy userId goes to the log files only.
\* (what the clock does between calls is said by the specification)
LogEventKeepOldest(level, userId) ==
    /\ UNCHANGED <<users, events, userEvents, sets, inflight, responses>>
    /\ LET logEntry == [timestamp |-> now, level |-> level, userId |-> userId]
       IN IF userId = NoId
          THEN UNCHANGED inMemoryLogs
          ELSE LET ensured == IF userId \in DOMAIN inMemoryLogs THEN inMemoryLogs
                              ELSE MapSet(inMemoryLogs, userId, <<>>)
                   userLogs == Append(ensured[userId], logEntry)
               IN inMemoryLogs' =
                     MapSet(ensured, userId,
                            IF Len(userLogs) > MaxMemoryLogs
                            THEN SliceFirst(userLogs, MaxMemoryLogs) ELSE userLogs)
LogEvent(level, userId) ==
    /\ UNCHANGED <<users, events, userEvents, sets, inflight, responses>>
    /\ LET logEntry == [timestamp |-> now, level |-> level, userId |-> userId]
       IN IF userId = NoId
          THEN UNCHANGED inMemoryLogs
          ELSE LET ensured == IF userId \in DOMAIN inMemoryLogs THEN inMemoryLogs
                              ELSE MapSet(inMemoryLogs, userId, <<>>)
                   userLogs == Append(ensured[userId], logEntry)
               IN inMemoryLogs' =
                     MapSet(ensured, userId,
                            IF Len(userLogs) > MaxMemoryLogs
                            THEN SliceLast(userLogs, MaxMemoryLogs) ELSE userLogs)

\* ------------------------------------------------------- specifications
FullBody(c) ==
    [title |-> "Launch", description |-> Undef, date |-> "2025-01-01", time |-> "10:00",
     capacity |-> <<c>>]
\* complete bodies (capacity 0 included), and bodies with one required field
\* absent or empty
CreateBodies ==
    {FullBody(c) : c \in 0..MaxCap}
        \cup {[FullBody(1) EXCEPT ![f] = Undef] : f \in {"title", "date", "time"}}
        \cup {[FullBody(1) EXCEPT !.title = ""], [FullBody(1) EXCEPT !.capacity = <<>>]}
UpdateBodies ==
    {[title |-> Undef, description |-> Undef, date |-> d, time |-> t, capacity |-> cap] :
        d \in {Undef, "2025-01-01"}, t \in {Undef, "10:00"},
        cap \in {<<>>} \cup {<<c>> : c \in 0..MaxCap}}

\* Spec: requests of every kind from the empty event store; no two events
\* are created within the same millisecond.
Create(u, body) ==
    /\ CreateEvent(u, body)
    /\ now' = IF events' = events THEN now ELSE now + 1

Next ==
    \/ Receive
    \/ /\ responses = EmptyBag
       /\ \/ \E u \in Clients, body \in CreateBodies : Create(u, body)
          \/ \E u \in Requesters, e \in EventIds, body \in UpdateBodies : UpdateEvent(u, e, body)
          \/ \E c \in BagToSet(inflight) : \E failed \in SUBSET c.recipients : UpdateResume(c, failed)
          \/ \E u \in Requesters, e \in EventIds : DeleteEvent(u, e)
          \/ \E c \in BagToSet(inflight) : DeleteResume(c)
          \/ \E u \in Requesters, e \in EventIds : RegisterForEvent(u, e)
          \/ \E c \in BagToSet(inflight), d \in BOOLEAN : RegisterResume(c, d)
       /\ BagCardinality(inflight') <= MaxInflight

Spec == Init /\ [][Next]_vars

\* SpecSameMs: as Spec, but the events are created within one millisecond
\* (Date.now() returns the same reading to every create).
CreateSameMs(u, body) ==
    /\ CreateEvent(u, body)
    /\ UNCHANGED now

NextSameMs ==
    \/ Receive
    \/ /\ responses = EmptyBag
       /\ \/ \E u \in Clients, body \in CreateBodies : CreateSameMs(u, body)
          \/ \E u \in Requesters, e \in EventIds, body \in UpdateBodies : UpdateEvent(u, e, body)
          \/ \E c \in BagToSet(inflight) : \E failed \in SUBSET c.recipients : UpdateResume(c, failed)
          \/ \E u \in Requesters, e \in EventIds : DeleteEvent(u, e)
          \/ \E c \in BagToSet(inflight) : DeleteResume(c)
          \/ \E u \in Requesters, e \in EventIds : RegisterForEvent(u, e)
          \/ \E c \in BagToSet(inflight), d \in BOOLEAN : RegisterResume(c, d)
       /\ BagCardinality(inflight') <= MaxInflight

SpecSameMs == Init /\ [][NextSameMs]_vars

\* SpecBurst: one event with no participants is stored (created at the
\* first clock reading); every requester sends at most one
\* register request for it, the requests overlap freely and the responses
\* are kept.
BurstEventId == FirstClock
BurstInit ==
    /\ inMemoryLogs = <<>>
    /\ now = FirstClock + 1
    /\ users = SignedUp
    /\ \E cap \in 1..MaxCap, owner \in Requesters :
          events = (BurstEventId :>
                      [id |-> BurstEventId, title |-> "Launch", description |-> "",
                       date |-> "2025-01-01", time |-> "10:00", capacity |-> cap,
                       createdBy |-> owner, participants |-> 1, createdAt |-> BurstEventId,
                       updatedAt |-> <<>>])
    /\ userEvents = [u \in Emails |-> {}]
    /\ sets = (1 :> {})
    /\ inflight = EmptyBag
    /\ responses = EmptyBag

HasSent(u) ==
    \/ \E r \in BagToSet(responses) : r.to = u
    \/ \E c \in BagToSet(inflight) : c.user = u

NextBurst ==
    \/ \E u \in Requesters : ~HasSent(u) /\ RegisterForEvent(u, BurstEventId)
    \/ \E c \in BagToSet(inflight), d \in BOOLEAN : RegisterResume(c, d)

SpecBurst == BurstInit /\ [][NextBurst]_vars

\* SpecStored: register, update and delete requests against an event that is
\* already stored, with one more handler in flight than in Spec (so that an
\* update and a delete, or two updates, can await their notifications at the
\* same time); no event is created.
NextStored ==
    \/ Receive
    \/ /\ responses = EmptyBag
       /\ \/ \E u \in Requesters, body \in UpdateBodies : UpdateEvent(u, BurstEventId, body)
          \/ \E c \in BagToSet(inflight) : \E failed \in SUBSET c.recipients : UpdateResume(c, failed)
          \/ \E u \in Requesters : DeleteEvent(u, BurstEventId)
          \/ \E c \in BagToSet(inflight) : DeleteResume(c)
          \/ \E u \in Requesters : RegisterForEvent(u, BurstEventId)
          \/ \E c \in BagToSet(inflight), d \in BOOLEAN : RegisterResume(c, d)
       /\ BagCardinality(inflight') <= MaxInflight + 1

SpecStored == BurstInit /\ [][NextStored]_vars

\* SpecPatches: the owner of a stored event sends two updates that patch
\* disjoint fields, one the capacity and one the time, each once, while users
\* register; the responses are kept.
PatchedCapacity == MaxCap + 1
PatchedTime == "11:00"
PatchBodies ==
    {[title |-> Undef, description |-> Undef, date |-> Undef, time |-> Undef,
      capacity |-> <<PatchedCapacity>>],
     [title |-> Undef, description |-> Undef, date |-> Undef, time |-> PatchedTime,
      capacity |-> <<>>]}
PatchSent(body) ==
    LET f == IF body.capacity = <<>> THEN {"time"} ELSE {"capacity"}
    IN \/ \E r \in BagToSet(responses) : r.op = "update" /\ r.fields = f
       \/ \E c \in BagToSet(inflight) : c.kind = "update" /\ c.changedFields = f

NextPatches ==
    /\ \/ \E body \in PatchBodies :
             /\ ~PatchSent(body)
             /\ UpdateEvent(events[BurstEventId].createdBy, BurstEventId, body)
       \/ \E c \in BagToSet(inflight) : \E failed \in SUBSET c.recipients : UpdateResume(c, failed)
       \/ \E u \in Requesters : ~HasSent(u) /\ RegisterForEvent(u, BurstEventId)
       \/ \E c \in BagToSet(inflight), d \in BOOLEAN : RegisterResume(c, d)
    /\ BagCardinality(inflight') <= MaxInflight + 1

SpecPatches == BurstInit /\ [][NextPatches]_vars

\* SpecAnyCapacity: creates, updates and registers whose capacity is any
\* integer from -1 up, negative and zero included.
AnyCapacities == -1..MaxCap
AnyCapacityUpdates ==
    {[title |-> Undef, description |-> Undef, date |-> Undef, time |-> Undef,
      capacity |-> <<c>>] : c \in AnyCapacities}

NextAnyCapacity ==
    \/ Receive
    \/ /\ responses = EmptyBag
       /\ \/ \E u \in Requesters, c \in AnyCapacities : Create(u, FullBody(c))
          \/ \E u \in Requesters, e \in EventIds, body \in AnyCapacityUpdates :
                UpdateEvent(u, e, body)
          \/ \E c \in BagToSet(inflight) : \E failed \in SUBSET c.recipients : UpdateResume(c, failed)
          \/ \E u \in Requesters, e \in EventIds : RegisterForEvent(u, e)
          \/ \E c \in BagToSet(inflight), d \in BOOLEAN : RegisterResume(c, d)
       /\ BagCardinality(inflight') <= MaxInflight

SpecAnyCapacity == Init /\ [][NextAnyCapacity]_vars

\* SpecSignUp: sign-up requests against the empty store.  Every email is
\* used by at most MaxInflight + 1 requests, which may overlap; the clock
\* starts at reading 1 and advances between steps up to the reading at which
\* Init starts, and the responses are kept.
Roles == {"organizer", "attendee"}
SignUpInit ==
    /\ inMemoryLogs = <<>>
    /\ now = 1
    /\ users = <<>>
    /\ events = <<>>
    /\ userEvents = <<>>
    /\ sets = <<>>
    /\ inflight = EmptyBag
    /\ responses = EmptyBag

SignUpsOf(m) ==
    BagCardinality([r \in {x \in BagToSet(responses) : x.to = m} |-> responses[r]])
        + BagCardinality([c \in {x \in BagToSet(inflight) : x.user = m} |-> inflight[c]])

Tick ==
    /\ UNCHANGED inMemoryLogs
    /\ now < FirstClock
    /\ now' = now + 1
    /\ UNCHANGED <<users, events, userEvents, sets, inflight, responses>>

NextSignUp ==
    \/ Tick
    \/ \E m \in Emails, role \in Roles : SignUpsOf(m) < MaxInflight + 1 /\ SignUp(m, role)
    \/ \E c \in BagToSet(inflight) : SignUpStore(c)
    \/ \E c \in BagToSet(inflight), d \in BOOLEAN : SignUpResume(c, d)

SpecSignUp == SignUpInit /\ [][NextSignUp]_vars

\* SpecList: two events are stored, created at consecutive clock readings by
\* account 1 and by the caller without a record, with dates given in the ISO
\* form or day first; users register for them and callers list them with and
\* without filters.
ListedIds == {FirstClock, FirstClock + 1}
ListDates == {"2025-01-01", "2025-01-02", "31/12/2024"}
ListQueries == {Undef, "LA", "te"}
ListInit ==
    /\ inMemoryLogs = <<>>
    /\ now = FirstClock + 2
    /\ users = SignedUp
    /\ \E cap \in 1..MaxCap, first \in ListDates, second \in ListDates :
          events = [e \in ListedIds |->
                      IF e = FirstClock
                      THEN [id |-> e, title |-> "Launch", description |-> "",
                            date |-> first, time |-> "10:00", capacity |-> cap,
                            createdBy |-> 1, participants |-> 1, createdAt |-> e,
                            updatedAt |-> <<>>]
                      ELSE [id |-> e, title |-> "Tea", description |-> "Late start",
                            date |-> second, time |-> "10:00", capacity |-> cap,
                            createdBy |-> 0, participants |-> 2, createdAt |-> e,
                            updatedAt |-> <<>>]]
    /\ userEvents = [u \in Emails |-> {}]
    /\ sets = <<{}, {}>>
    /\ inflight = EmptyBag
    /\ responses = EmptyBag

NextList ==
    \/ Receive
    \/ /\ responses = EmptyBag
       /\ \/ \E u \in Requesters, date \in ListDates \cup {Undef}, query \in ListQueries :
                ListEvents(u, date, query)
          \/ \E u \in Requesters, e \in ListedIds : RegisterForEvent(u, e)
          \/ \E c \in BagToSet(inflight), d \in BOOLEAN : RegisterResume(c, d)
       /\ BagCardinality(inflight') <= MaxInflight

SpecList == ListInit /\ [][NextList]_vars

\* SpecLive: as Spec, with every client waiting for the response to its
\* request before it sends the next one, and with every delivery that a
\* handler awaits settling eventually: the event loop then resumes the
\* handler, whatever other requests are being served.  Creates carry the
\* largest capacity or lack the title; updates patch date and time only.
LiveCreateBodies == {FullBody(MaxCap), [FullBody(MaxCap) EXCEPT !.title = Undef]}
LiveUpdateBodies == {body \in UpdateBodies : body.capacity = <<>>}
Waiting(u) == \E c \in BagToSet(inflight) : c.user = u
ResumeFor(u) ==
    \E c \in BagToSet(inflight) :
        /\ c.user = u
        /\ \/ \E failed \in SUBSET c.recipients : UpdateResume(c, failed)
           \/ DeleteResume(c)
           \/ \E d \in BOOLEAN : RegisterResume(c, d)

NextLive ==
    \/ Receive
    \/ /\ responses = EmptyBag
       /\ \E u \in Clients :
             /\ ~Waiting(u)
             /\ \/ \E body \in LiveCreateBodies : Create(u, body)
                \/ /\ u \in Requesters
                   /\ \/ \E e \in EventIds, body \in LiveUpdateBodies : UpdateEvent(u, e, body)
                      \/ \E e \in EventIds : DeleteEvent(u, e)
                      \/ \E e \in EventIds : RegisterForEvent(u, e)
       /\ BagCardinality(inflight') <= MaxInflight
    \/ \E u \in Requesters : ResumeFor(u)

SpecLive == Init /\ [][NextLive]_vars /\ \A u \in Requesters : WF_vars(ResumeFor(u))

\* SpecTwo: two events of the largest capacity are stored, as in SpecList,
\* both on the same date; users register for them and delete requests are
\* sent for the first, with one more handler in flight than in Spec (so that
\* two deletes can await their notifications at the same time).  A request
\* handler starts when the earlier answers have been read, and so does the
\* resumption of a register; a suspended delete resumes at any time.
TwoInit ==
    /\ ListInit
    /\ \A e \in ListedIds : events[e].date = "2025-01-01" /\ events[e].capacity = MaxCap

NextTwo ==
    \/ Receive
    \/ /\ responses = EmptyBag
       /\ \/ \E u \in Requesters, e \in ListedIds : RegisterForEvent(u, e)
          \/ \E c \in BagToSet(inflight), d \in BOOLEAN : RegisterResume(c, d)
          \/ \E u \in Requesters : DeleteEvent(u, FirstClock)
       /\ BagCardinality(inflight') <= MaxInflight + 1
    \/ \E c \in BagToSet(inflight) : DeleteResume(c)

SpecTwo == TwoInit /\ [][NextTwo]_vars

\* SpecLog: sequences of calls of logEvent, one per clock reading.  In the
\* first MaxCap readings the call carries any user id, or none, and those of
\* account 1 any level; from then on the calls are info entries of account
\* 1, enough of them to fill its log beyond MaxMemoryLogs entries.
LogLevels == {"info", "warn"}
LastLogClock == FirstClock + MaxMemoryLogs + MaxCap + MaxCap
LogCall(level, userId) ==
    /\ now < LastLogClock
    /\ userId /= 1 => (level = "info" /\ now < FirstClock + MaxCap)
    /\ level /= "info" => now < FirstClock + MaxCap
    /\ LogEvent(level, userId)
    /\ now' = now + 1

NextLog == \E level \in LogLevels, userId \in Emails \cup {NoId} : LogCall(level, userId)

SpecLog == Init /\ [][NextLog]_vars

\* =================================================================== claims
ParticipantsOf(e) == sets[events[e].participants]
Sent == BagToSet(responses)
SentNext == BagToSet(responses')
TooLowMessage == "New capacity cannot be less than current number of participants"

\* C1: in every reachable state every stored event has at most as many
\* participants as its capacity.
C1_ParticipantsWithinCapacity ==
    \A e \in DOMAIN events : Cardinality(ParticipantsOf(e)) <= events[e].capacity

\* C3: once the requests have completed (no handler is suspended), user u is
\* a participant of stored event e exactly when e is in userEvents[u]; so no
\* userEvents set holds the id of an event that is not stored.
C3_BidirectionalConsistency ==
    inflight = EmptyBag =>
        \A u \in Requesters, e \in EventIds :
            (e \in DOMAIN events /\ u \in ParticipantsOf(e))
                <=> (u \in DOMAIN userEvents /\ e \in userEvents[u])

\* C4: a register request adds the user to the participants and the event to
\* the user's registered events in one step, or changes neither; the step
\* that resumes it after the email changes neither.
C4_RegisterAllOrNothing ==
    [][\/ (userEvents' = userEvents /\ sets' = sets)
       \/ /\ \A u \in Requesters, e \in EventIds :
               RegisterForEvent(u, e) =>
                   /\ e \in DOMAIN events
                   /\ u \notin ParticipantsOf(e)
                   /\ sets'[events'[e].participants] = ParticipantsOf(e) \cup {u}
                   /\ u \in DOMAIN userEvents' /\ e \in userEvents'[u]
                   /\ \A v \in DOMAIN userEvents : userEvents'[v] \ {e} = userEvents[v] \ {e}
          /\ \A c \in BagToSet(inflight), d \in BOOLEAN :
               RegisterResume(c, d) =>
                   /\ userEvents' = userEvents
                   /\ \A e \in DOMAIN events :
                         sets'[events'[e].participants] = ParticipantsOf(e)]_vars

\* a successful register has answered and the user is on both sides
C4_Witness ==
    \E r \in Sent :
        /\ r.op = "register" /\ r.status = 200
        /\ r.eventId \in DOMAIN events
        /\ r.to \in ParticipantsOf(r.eventId)
        /\ r.eventId \in userEvents[r.to]

\* C5: when a delete has answered with success, the event is in no user's
\* registered-event set and not in the event store.
C5_DeleteRemovesEverywhere ==
    \A r \in Sent :
        (r.op = "delete" /\ r.status = 200) =>
            /\ r.eventId \notin DOMAIN events
            /\ \A u \in DOMAIN userEvents : r.eventId \notin userEvents[u]

\* C6: a register by a user who is already a participant answers 400
\* 'Already registered for this event' and keeps the participant count,
\* whatever the capacity and occupancy of the event.
C6_AlreadyRegisteredRejected ==
    [][\A u \in Requesters, e \in EventIds :
          (e \in DOMAIN events /\ u \in ParticipantsOf(e) /\ RegisterForEvent(u, e)) =>
              /\ Resp(u, "register", e, 400, "Already registered for this event", <<>>, {})
                    \in SentNext
              /\ Cardinality(sets'[events'[e].participants]) = Cardinality(ParticipantsOf(e))]_vars

\* C7: an owner's update with 1 <= capacity < participants.size answers 400
\* with currentParticipants = participants.size and changes nothing stored.
C7_CapacityTooLowRejected ==
    [][\A e \in DOMAIN events :
          Cardinality(ParticipantsOf(e)) >= 2 =>
              \A c \in 1..(Cardinality(ParticipantsOf(e)) - 1), body \in UpdateBodies :
                  (body.capacity = <<c>> /\ UpdateEvent(events[e].createdBy, e, body)) =>
                      /\ Resp(events[e].createdBy, "update", e, 400, TooLowMessage,
                              <<Cardinality(ParticipantsOf(e))>>, {}) \in SentNext
                      /\ UNCHANGED <<events, sets, userEvents, inflight>>]_vars

\* an update was refused because two users are registered
C7_Witness ==
    \E r \in Sent :
        /\ r.op = "update" /\ r.status = 400 /\ r.n = <<2>>
        /\ r.eventId \in DOMAIN events
        /\ Cardinality(ParticipantsOf(r.eventId)) = 2
        /\ events[r.eventId].createdBy = r.to

\* C8: an owner's update with capacity 0 of an event with one participant
\* answers 400 with currentParticipants = 1 and changes nothing stored.
C8_ZeroCapacityRejected ==
    [][\A u \in Requesters, e \in EventIds, body \in UpdateBodies :
          (/\ e \in DOMAIN events
           /\ events[e].createdBy = u
           /\ body.capacity = <<0>>
           /\ Cardinality(ParticipantsOf(e)) = 1
           /\ UpdateEvent(u, e, body)) =>
              /\ Resp(u, "update", e, 400, TooLowMessage, <<1>>, {}) \in SentNext
              /\ UNCHANGED <<events, sets, userEvents, inflight>>]_vars

\* C9: a successful register answers with spotsRemaining = capacity minus
\* the participant count right after that registration; a register by a user
\* who is not registered, on an event whose participant count equals its
\* capacity, answers 400 'Event is full' and changes nothing.
C9_SpotsRemainingAndEventFull ==
    [][/\ \A u \in Requesters, e \in EventIds :
            (e \in DOMAIN events /\ u \notin ParticipantsOf(e) /\ RegisterForEvent(u, e)) =>
                IF Cardinality(ParticipantsOf(e)) = events[e].capacity
                THEN /\ Resp(u, "register", e, 400, "Event is full", <<>>, {}) \in SentNext
                     /\ UNCHANGED <<events, sets, userEvents, inflight>>
                ELSE \A r \in SentNext :
                        r.status = 200 =>
                            r.n = <<events[e].capacity
                                      - Cardinality(sets'[events[e].participants])>>
       /\ \A c \in BagToSet(inflight) :
            RegisterResume(c, TRUE) =>
                Resp(c.user, "register", c.eventId, 200, "", <<c.n>>, {}) \in SentNext]_vars

\* C10: an update or delete by a requester other than createdBy answers 403
\* and changes nothing stored; and a stored event is replaced, changed or
\* removed only by a step of a request of its creator.
C10_OnlyCreatorChangesEvent ==
    [][/\ \A u \in Requesters, e \in EventIds, body \in UpdateBodies :
            (e \in DOMAIN events /\ events[e].createdBy /= u /\ UpdateEvent(u, e, body)) =>
                /\ Resp(u, "update", e, 403,
                        "Unauthorized: Only the event creator can update this event", <<>>, {})
                      \in SentNext
                /\ UNCHANGED <<events, sets, userEvents, inflight>>
       /\ \A u \in Requesters, e \in EventIds :
            (e \in DOMAIN events /\ events[e].createdBy /= u /\ DeleteEvent(u, e)) =>
                /\ Resp(u, "delete", e, 403,
                        "Unauthorized: Only the event creator can delete this event", <<>>, {})
                      \in SentNext
                /\ UNCHANGED <<events, sets, userEvents, inflight>>
       /\ \A e \in DOMAIN events :
            (e \notin DOMAIN events' \/ events'[e] /= events[e]) =>
                LET creator == events[e].createdBy
                IN \/ \E body \in CreateBodies : CreateEvent(creator, body)
                   \/ \E body \in UpdateBodies : UpdateEvent(creator, e, body)
                   \/ DeleteEvent(creator, e)
                   \/ \E c \in BagToSet(inflight) :
                        /\ c.user = creator
                        /\ c.eventId = e
                        /\ \/ \E failed \in SUBSET c.recipients : UpdateResume(c, failed)
                           \/ DeleteResume(c)]_vars

\* C2: after the register requests of N distinct users for an event with
\* capacity C and no participants have all been answered, min(N, C) of the
\* answers are successes, the other N - min(N, C) are 'Event is full', and
\* the event has min(N, C) participants.
MinOf(a, b) == IF a <= b THEN a ELSE b
C2_BurstFillsExactly ==
    inflight = EmptyBag =>
        LET N == Cardinality(Sent)
            C == events[BurstEventId].capacity
            successes == {r \in Sent : r.status = 200}
            full == {r \in Sent : r.status = 400 /\ r.error = "Event is full"}
        IN /\ Cardinality(successes) = MinOf(N, C)
           /\ Cardinality(full) = N - MinOf(N, C)
           /\ Cardinality(ParticipantsOf(BurstEventId)) = MinOf(N, C)

\* C11: among the callers that have a user record, a create succeeds only
\* for one whose role is organizer, and a register succeeds only for one
\* whose role is attendee.
RoleOfCaller(id) == users[EmailOf(id)].role
C11_RolePermissions ==
    \A r \in Sent :
        HasRecord(r.to) =>
            /\ (r.op = "create" /\ r.status = 201) => RoleOfCaller(r.to) = "organizer"
            /\ (r.op = "register" /\ r.status = 200) => RoleOfCaller(r.to) = "attendee"

\* C12: an owner's delete of an event with k participants never answers an
\* error: it answers 200 with participantsNotified = k and removes the
\* event, at once or after its notifications have settled, however they
\* settle.
C12_DeleteNotifiesAll ==
    [][/\ \A e \in DOMAIN events :
            LET owner == events[e].createdBy
                k == Cardinality(ParticipantsOf(e))
            IN DeleteEvent(owner, e) =>
                  \/ /\ Resp(owner, "delete", e, 200, "", <<k>>, {}) \in SentNext
                     /\ e \notin DOMAIN events'
                  \/ \E c \in BagToSet(inflight') :
                        c.kind = "delete" /\ c.eventId = e /\ c.user = owner /\ c.n = k
       /\ \A c \in BagToSet(inflight) :
            DeleteResume(c) =>
                /\ Resp(c.user, "delete", c.eventId, 200, "", <<c.n>>, {}) \in SentNext
                /\ c.eventId \notin DOMAIN events']_vars

\* C13: an owner's update that passes the capacity check attempts a delivery
\* to every participant that has a user record before any of them settles,
\* and whichever of the deliveries fail, the handler stores the patched event
\* and answers 200.
C13_UpdateSurvivesFailedNotifications ==
    [][/\ \A e \in DOMAIN events :
            \* every step of UpdateEvent for the owner answers the owner or
            \* suspends a handler of the owner
            (\/ \E r \in SentNext : r.op = "update" /\ r.to = events[e].createdBy
             \/ \E c \in BagToSet(inflight') : c.kind = "update" /\ c \notin BagToSet(inflight)) =>
            \A body \in UpdateBodies :
                (/\ ~CapacityTooLow(body.capacity, Cardinality(ParticipantsOf(e)))
                 /\ UpdateEvent(events[e].createdBy, e, body)) =>
                    \/ /\ \E r \in SentNext : r.op = "update" /\ r.status = 200 /\ r.eventId = e
                       /\ events'[e].updatedAt = <<now>>
                    \/ \E c \in BagToSet(inflight') :
                          /\ c.kind = "update" /\ c.eventId = e
                          /\ c.event.updatedAt = <<now>>
                          /\ c.recipients =
                                {m \in DOMAIN users : users[m].id \in ParticipantsOf(e)}
       /\ \A c \in BagToSet(inflight) :
            c.kind = "update" =>
                \A failed \in SUBSET c.recipients :
                    UpdateResume(c, failed) =>
                        /\ events'[c.eventId] = c.event
                        /\ \E r \in SentNext :
                              /\ r.op = "update" /\ r.status = 200
                              /\ r.to = c.user /\ r.eventId = c.eventId]_vars

\* an update was answered 200 although a notification of it failed
C13_Witness ==
    /\ \E r \in Sent : r.op = "update" /\ r.status = 200
    /\ \E r \in Sent : r.op = "log" /\ r.error = "UPDATE_EVENT_EMAIL_FAILED"

\* C14: however the awaited notifications of a register, update or delete
\* settle, the handler answers its request with success.
C14_NotificationNeverFailsResponse ==
    [][\A c \in BagToSet(inflight) :
          (\/ \E delivered \in BOOLEAN : RegisterResume(c, delivered)
           \/ \E failed \in SUBSET c.recipients : UpdateResume(c, failed)
           \/ DeleteResume(c)) =>
              \E r \in SentNext :
                  r.to = c.user /\ r.eventId = c.eventId /\ r.status = 200]_vars

\* C15: a step in which a register, update or delete request is answered
\* 404, 403 or 400 leaves the users, the events, the participants and the
\* registered-event sets as they were and suspends no handler on a
\* notification.
DomainErrors == {400, 403, 404}
C15_DomainErrorsChangeNothing ==
    [][(\E r \in SentNext :
           /\ r \notin Sent
           /\ r.op \in {"register", "update", "delete"}
           /\ r.status \in DomainErrors) =>
          UNCHANGED <<users, events, userEvents, sets, inflight>>]_vars

\* a register was refused on a full event
C15_Witness ==
    \E r \in Sent :
        /\ r.op = "register" /\ r.status = 400 /\ r.error = "Event is full"
        /\ r.eventId \in DOMAIN events
        /\ r.to \notin ParticipantsOf(r.eventId)
        /\ Cardinality(ParticipantsOf(r.eventId)) >= events[r.eventId].capacity

\* C16: in runs without creates, an event id that is absent from the event
\* store stays absent: nothing stores again an event that a delete removed.
C16_DeletedIsTerminal ==
    [][\A e \in EventIds : e \notin DOMAIN events => e \notin DOMAIN events']_vars

\* C17: when the owner's two updates, one patching the capacity and one the
\* time, have both been answered with success, the stored event has the
\* patched capacity and the patched time.
C17_BothPatchesKept ==
    ((\E r \in Sent : r.op = "update" /\ r.status = 200 /\ r.fields = {"capacity"})
       /\ (\E r \in Sent : r.op = "update" /\ r.status = 200 /\ r.fields = {"time"})) =>
        /\ events[BurstEventId].capacity = PatchedCapacity
        /\ events[BurstEventId].time = PatchedTime

\* C18: a create whose caller has no id answers 401, a create of a caller
\* with an id whose body lacks title, date, time or capacity answers 400,
\* and neither stores an event.
C18_CreateValidation ==
    [][(\E r \in SentNext : r.op = "create") =>
          \A u \in Clients, body \in CreateBodies :
              (/\ \/ u = NoId
                  \/ body.title = Undef \/ body.date = Undef \/ body.time = Undef
                  \/ body.capacity = <<>>
               /\ CreateEvent(u, body)) =>
                  /\ \E r \in SentNext :
                        r.op = "create" /\ r.to = u
                          /\ r.status = IF u = NoId THEN 401 ELSE 400
                  /\ UNCHANGED <<events, sets, userEvents>>]_vars

\* a create was refused and the event store is empty
C18_Witness ==
    /\ events = <<>>
    /\ \E r \in Sent : r.op = "create" /\ r.status = 400 /\ r.to /= NoId

\* C19: every stored event has a capacity of at least 1, whatever integer
\* capacities the create and update requests carried.
C19_CapacityPositive ==
    \A e \in DOMAIN events : events[e].capacity >= 1

\* C20: a step in which a create is answered 201 leaves every event that was
\* stored before it in the store, with the same fields and participants.
C20_CreateKeepsStoredEvents ==
    [][(\E r \in SentNext : r \notin Sent /\ r.op = "create" /\ r.status = 201) =>
          \A e \in DOMAIN events :
              /\ e \in DOMAIN events'
              /\ [events'[e] EXCEPT !.participants = {}] = [events[e] EXCEPT !.participants = {}]
              /\ sets'[events'[e].participants] = ParticipantsOf(e)]_vars

\* C21: of the sign-up requests that carry one email, at most one is
\* answered 201, and a user record, once stored for an email, is never
\* replaced.
SignUpSuccesses(resp, m) ==
    BagCardinality([r \in {x \in BagToSet(resp) : x.op = "signup" /\ x.to = m /\ x.status = 201}
                      |-> resp[r]])
C21_OneSignUpPerEmail ==
    [][/\ \A m \in Emails : SignUpSuccesses(responses', m) <= 1
       /\ \A m \in DOMAIN users : m \in DOMAIN users' /\ users'[m] = users[m]]_vars

\* C22: when an update of the owner is answered with success, every one of
\* title, description, date, time, capacity of the stored event is the patch
\* value if the patch carries a truthy one, and otherwise the value that was
\* stored right before the update was written.
PatchFields(body) == IF body.capacity = <<>> THEN {"time"} ELSE {"capacity"}
PatchValue(body, f, stored) ==
    IF f = "capacity"
    THEN IF TruthyNum(body.capacity) THEN body.capacity[1] ELSE stored
    ELSE IF Truthy(body[f]) THEN body[f] ELSE stored
C22_PatchedOrKept ==
    [][\A body \in PatchBodies :
          LET e == BurstEventId
              asPatched == \A f \in Fields : events'[e][f] = PatchValue(body, f, events[e][f])
          IN /\ (UpdateEvent(events[e].createdBy, e, body) /\ events' /= events) => asPatched
             /\ \A c \in BagToSet(inflight) :
                  (/\ c.kind = "update"
                   /\ c.changedFields = PatchFields(body)
                   /\ \E failed \in SUBSET c.recipients : UpdateResume(c, failed)) => asPatched]_vars

\* C23: the updatedFields of an update answered with success are exactly the
\* fields among title, description, date, time, capacity whose stored value
\* the step that wrote the update has changed.
C23_UpdatedFieldsExact ==
    [][\A r \in SentNext :
          (r \notin Sent /\ r.op = "update" /\ r.status = 200 /\ r.eventId \in DOMAIN events) =>
              r.fields = {f \in Fields : events'[r.eventId][f] /= events[r.eventId][f]}]_vars

\* C24: every view of a list response has spotsRemaining = capacity -
\* participants.size, isFull = (participants.size >= capacity),
\* isUserRegistered = (caller in participants) and registrationStatus
\* 'registered' for a participant, else 'full' for a full event, else 'open';
\* a listing without filters has a view of every stored event; and listing
\* changes nothing stored.
C24_ListView ==
    [][\A r \in SentNext :
          (r \notin Sent /\ r.op = "list") =>
              /\ \A i \in 1..Len(r.n) :
                    LET view == r.n[i]
                        event == events[view.id]
                        size == Cardinality(ParticipantsOf(view.id))
                    IN /\ view.spotsRemaining = event.capacity - size
                       /\ view.isFull = (size >= event.capacity)
                       /\ view.isUserRegistered = (r.to \in ParticipantsOf(view.id))
                       /\ view.registrationStatus =
                             IF r.to \in ParticipantsOf(view.id) THEN "registered"
                             ELSE IF size >= event.capacity THEN "full" ELSE "open"
              /\ ListEvents(r.to, Undef, Undef) => {r.n[i].id : i \in 1..Len(r.n)} = DOMAIN events
              /\ UNCHANGED <<now, users, events, userEvents, sets, inflight>>]_vars

\* a participant of a full event has listed it and sees 'registered'
C24_Witness ==
    \E r \in Sent :
        /\ r.op = "list"
        /\ \E i \in 1..Len(r.n) :
              /\ r.n[i].isFull
              /\ r.n[i].registrationStatus = "registered"
              /\ r.to \in ParticipantsOf(r.n[i].id)

\* C25: the views of a list response are in ascending order of the calendar
\* day of their dates, and they are the views of exactly the stored events
\* whose date equals the date filter, when one is given, and whose title or
\* description contains the query in any letter case, when one is given.
\* (the calendar day a date string names, counted as DateNumber counts)
CalendarDay(date) ==
    CASE date = "31/12/2024" -> 20088
      [] date = "2025-01-01" -> 20089
      [] date = "2025-01-02" -> 20090
C25_SortedAndFiltered ==
    [][\A u \in Requesters, date \in ListDates \cup {Undef}, query \in ListQueries :
          ListEvents(u, date, query) =>
              \A r \in SentNext :
                  /\ \A i, j \in 1..Len(r.n) :
                        i < j => CalendarDay(r.n[i].date) <= CalendarDay(r.n[j].date)
                  /\ Cardinality({r.n[i].id : i \in 1..Len(r.n)}) = Len(r.n)
                  /\ {r.n[i].id : i \in 1..Len(r.n)} =
                        {e \in DOMAIN events :
                            /\ date /= Undef => events[e].date = date
                            /\ query /= Undef =>
                                 \/ Includes(ToLowerCase(events[e].title), ToLowerCase(query))
                                 \/ Includes(ToLowerCase(events[e].description),
                                             ToLowerCase(query))}]_vars

\* C26: when an update or a delete has dispatched its notifications (its
\* handler awaits their deliveries), its store mutation is already committed:
\* the updated event is stored, the deleted event is removed.
C26_CommitBeforeNotify ==
    [][\A c \in BagToSet(inflight') :
          (c \notin BagToSet(inflight) /\ c.kind \in {"update", "delete"}) =>
              IF c.kind = "update"
              THEN c.eventId \in DOMAIN events' /\ events'[c.eventId] = c.event
              ELSE c.eventId \notin DOMAIN events']_vars

\* C27: a request step answers its request or suspends its handler, never
\* both and never neither; the step that resumes a suspended handler answers
\* its request once; and every suspended handler is eventually resumed, so
\* that every request is answered exactly once.
Answers(resp) ==
    BagCardinality([r \in {x \in BagToSet(resp) : x.op /= "log"} |-> resp[r]])
Answered(u) ==
    /\ ~Waiting(u)
    /\ \E r \in Sent : r.to = u /\ r.op \in {"update", "delete", "register"}
C27_ExactlyOneResponse ==
    /\ [][\/ Receive
          \/ /\ BagCardinality(inflight') >= BagCardinality(inflight)
             /\ Answers(responses') + BagCardinality(inflight')
                   = Answers(responses) + BagCardinality(inflight) + 1
          \/ /\ BagCardinality(inflight') = BagCardinality(inflight) - 1
             /\ Answers(responses') = Answers(responses) + 1
             /\ \E c \in BagToSet(inflight) :
                   /\ inflight' = inflight (-) SetToBag({c})
                   /\ \E r \in SentNext : r \notin Sent /\ r.to = c.user /\ r.op = c.kind]_vars
    /\ \A u \in Requesters : Waiting(u) ~> Answered(u)

\* the handler of a request was suspended and has answered after its
\* notification failed
C27_Witness ==
    /\ inflight = EmptyBag
    /\ \E r \in Sent : r.op = "register" /\ r.status = 500

\* C28: the step that writes a successful update leaves the id, createdBy
\* and createdAt of the stored event and its set of participants as they
\* were, whatever requests were served while the update awaited its
\* notifications; so a user who registered meanwhile is a participant of the
\* stored event after the update is written.
C28_UpdateKeepsIdentityAndParticipants ==
    [][\A r \in SentNext :
          (r \notin Sent /\ r.op = "update" /\ r.status = 200 /\ r.eventId \in DOMAIN events) =>
              LET e == r.eventId
              IN /\ events'[e].id = events[e].id
                 /\ events'[e].createdBy = events[e].createdBy
                 /\ events'[e].createdAt = events[e].createdAt
                 /\ sets'[events'[e].participants] = ParticipantsOf(e)]_vars

\* C29: an update dispatches notifications (its handler awaits deliveries)
\* only when the date or the time it is about to store differs from the
\* stored one; and an update that is written at once, without a dispatch,
\* has changed the date or the time only when no participant has a user
\* record to notify.
C29_NotifyIffDateOrTimeChanged ==
    [][/\ \A c \in BagToSet(inflight') :
            (c \notin BagToSet(inflight) /\ c.kind = "update") =>
                \/ c.event.date /= events[c.eventId].date
                \/ c.event.time /= events[c.eventId].time
       /\ \A r \in SentNext :
            (/\ r \notin Sent /\ r.op = "update" /\ r.status = 200
             /\ inflight' = inflight
             /\ r.eventId \in DOMAIN events
             /\ \/ events'[r.eventId].date /= events[r.eventId].date
                \/ events'[r.eventId].time /= events[r.eventId].time) =>
                \A p \in ParticipantsOf(r.eventId) : ~HasRecord(p)]_vars

\* C30: the steps of a delete that succeeds (the creator's, every
\* participant having a user record) change nothing but this: the first
\* removes the event's id from the registered-event sets of its participants,
\* and does so without an error also for a participant whose set does not
\* hold the id; the last removes the event from the store.  The other events,
\* their participants, the users and the registrations for other events stay
\* as they were.
OthersKept(e) ==
    /\ users' = users
    /\ DOMAIN events' \in {DOMAIN events, DOMAIN events \ {e}}
    /\ \A o \in DOMAIN events \ {e} :
          /\ o \in DOMAIN events'
          /\ events'[o] = events[o]
          /\ sets'[events'[o].participants] = ParticipantsOf(o)
C30_DeleteFrame ==
    [][\A e \in ListedIds :
          /\ (/\ e \in DOMAIN events
              /\ \A p \in ParticipantsOf(e) : HasRecord(p)
              /\ DeleteEvent(events[e].createdBy, e)) =>
                /\ \A r \in SentNext : r.status = 200
                /\ OthersKept(e)
                /\ DOMAIN userEvents' = DOMAIN userEvents
                /\ \A v \in DOMAIN userEvents :
                      userEvents'[v] = IF v \in ParticipantsOf(e) THEN userEvents[v] \ {e}
                                       ELSE userEvents[v]
          /\ \A c \in BagToSet(inflight) :
                (c.eventId = e /\ DeleteResume(c)) =>
                    /\ \E r \in SentNext : r.op = "delete" /\ r.status = 200 /\ r.to = c.user
                    /\ e \notin DOMAIN events'
                    /\ OthersKept(e)
                    /\ userEvents' = userEvents]_vars

\* two deletes of one event with participants have both succeeded, neither
\* answer read yet: the handler that started second found the id already
\* removed from the registered-event sets; a registration for the other
\* event is still in place
C30_Witness ==
    \E r \in Sent :
        /\ r.op = "delete" /\ r.status = 200 /\ r.n /= <<0>>
        /\ responses[r] >= 2
        /\ r.eventId \notin DOMAIN events
        /\ \E o \in DOMAIN events : \E u \in ParticipantsOf(o) : o \in userEvents[u]

\* C31: a register that is answered 500 has kept no registration (the
\* caller is not a participant of the event and the event is not in the
\* caller's registered-event set), and the step in which a delete is answered
\* 500 leaves the events, the participants and the registered-event sets as
\* they were.
C31_FailureChangesNothing ==
    [][\A r \in SentNext :
          (r \notin Sent /\ r.status = 500 /\ r.op \in {"register", "delete"}) =>
              IF r.op = "delete"
              THEN UNCHANGED <<events, userEvents, sets>>
              ELSE /\ r.eventId \in DOMAIN events' =>
                         r.to \notin sets'[events'[r.eventId].participants]
                   /\ r.to \in DOMAIN userEvents' => r.eventId \notin userEvents'[r.to]]_vars

\* C32: after every step the stored users have pairwise distinct ids, and no
\* step of a sign-up changes the registered-event set that an id already
\* has.
C32_DistinctUserIds ==
    [][/\ \A m, o \in DOMAIN users' : m /= o => users'[m].id /= users'[o].id
       /\ \A u \in DOMAIN userEvents : u \in DOMAIN userEvents' /\ userEvents'[u] = userEvents[u]]_vars

\* C33: after a call of logEvent with a user id, the log of that user is
\* its log before the call with the new entry behind it, cut to its last
\* MaxMemoryLogs entries, so it holds at most MaxMemoryLogs entries, the most
\* recent ones in the order they were logged; the logs of the other users
\* are as they were.
LogOf(logs, u) == IF u \in DOMAIN logs THEN logs[u] ELSE <<>>
C33_LogKeepsMostRecent ==
    [][\A u \in Emails :
          LET before == LogOf(inMemoryLogs, u)
              after == LogOf(inMemoryLogs', u)
              dropped == Len(before) + 1 - Len(after)
          IN IF \E level \in LogLevels : LogEvent(level, u)
             THEN /\ Len(after) <= MaxMemoryLogs
                  /\ dropped = IF Len(before) = MaxMemoryLogs THEN 1 ELSE 0
                  /\ after[Len(after)].timestamp = now /\ after[Len(after)].userId = u
                  /\ \A i \in 1..(Len(after) - 1) : after[i] = before[i + dropped]
                  /\ \A i \in 2..Len(after) : after[i - 1].timestamp < after[i].timestamp
             ELSE after = before]_vars

\* the log of account 1 is full and has dropped its oldest entries (more
\* than MaxMemoryLogs calls were made for it), next to the log of account 2
C33_Witness ==
    /\ now = LastLogClock
    /\ Len(LogOf(inMemoryLogs, 1)) = MaxMemoryLogs
    /\ LogOf(inMemoryLogs, 1)[1].timestamp > FirstClock + MaxCap
    /\ Len(LogOf(inMemoryLogs, 2)) >= 1

====
